---- MODULE Spec2Model ----
(***************************************************************************)
(* State-machine model of the RDU temperature pipeline:                    *)
(*   src/src/data/api_xgb_data.py   fetch per year, merge, normalise, save *)
(*   src/src/data/build_features.py training / inference feature tables    *)
(*   src/src/data/test_truth.py     climatology-backed evaluation table    *)
(*                                                                         *)
(* Representation.                                                         *)
(*   A timestamp is the number of minutes since 2019-01-01 00:00 (naive    *)
(*   local civil time, as pandas holds it after pd.to_datetime).           *)
(*   A date string "YYYY-MM-DD" is the tuple <<y, m, d>>.                  *)
(*   A float cell is NaN (the empty tuple) or an exact rational <<p, q>>   *)
(*   in lowest terms with q > 0; a standard deviation is held as the       *)
(*   variance whose root it is (the root is injective on variances).       *)
(*   A table (DataFrame) is a sequence of records, one field per column.   *)
(***************************************************************************)
EXTENDS Integers, Sequences, FiniteSets, TLC

VARIABLES
    pc,          \* position of the running script
    err,         \* "" or the message of the exception that ended the run
    responses,   \* api: what the weather archive answers for each chunk
    dfs,         \* api: the list of per-chunk tables fetched so far
    dropped,     \* api: reported number of duplicate timestamps removed
    bad,         \* api: reported number of non-1h steps
    raw_csv,     \* file RAW_OUT
    staging_csv, \* file STANDARD_OUT = STAGING_PATH = HISTORY_PATH
    cutoff,      \* build_features: CUTOFF
    df,          \* build_features: the working frame of build_train_features
    train_csv,   \* file TRAIN_OUT
    test_df,     \* test_truth: the evaluation frame
    clim_csv,    \* test_truth: file OUT_PATH
    start_date,  \* make_year_chunks: argument
    end_date,    \* make_year_chunks: argument
    year,        \* make_year_chunks: loop variable
    chunks,      \* make_year_chunks: the list being built
    parts,       \* api: the clipped frame of each chunk
    t0,          \* build_infer_features: argument
    t1,          \* build_infer_features: argument
    infer_csv    \* file INFER_OUT

vars == <<pc, err, responses, dfs, dropped, bad, raw_csv, staging_csv,
          cutoff, df, train_csv, test_df, clim_csv,
          start_date, end_date, year, chunks, parts, t0, t1, infer_csv>>

\* The variables of make_year_chunks and of build_infer_features.
chunkVars == <<start_date, end_date, year, chunks, parts>>

inferVars == <<t0, t1, infer_csv>>

----------------------------------------------------------------------------
(* Numbers                                                                 *)

NaN == <<>>

IsNaN(x) == x = NaN

Abs(n) == IF n < 0 THEN -n ELSE n

RECURSIVE Gcd(_, _)
Gcd(a, b) == IF b = 0 THEN a ELSE Gcd(b, a % b)

\* The rational p/q (q # 0) in lowest terms with a positive denominator.
Rat(p, q) ==
    LET g == Gcd(Abs(p), Abs(q))
        s == IF q < 0 THEN -1 ELSE 1
    IN  <<(s * p) \div g, (s * q) \div g>>

Num(n) == <<n, 1>>

\* Float subtraction: NaN if either operand is NaN.
Sub(x, y) ==
    IF IsNaN(x) \/ IsNaN(y) THEN NaN
    ELSE Rat(x[1] * y[2] - y[1] * x[2], x[2] * y[2])

Max2(a, b) == IF a >= b THEN a ELSE b

Min2(a, b) == IF a <= b THEN a ELSE b

\* Running sums of float cells over a common denominator d, NaN cells
\* skipped: n cells counted, s/d their sum, q/(d*d) the sum of their squares.
NoSums == [n |-> 0, d |-> 1, s |-> 0, q |-> 0]

SumsOfCell(x) ==
    IF IsNaN(x) THEN NoSums ELSE [n |-> 1, d |-> x[2], s |-> x[1], q |-> x[1] * x[1]]

AddSums(a, b) ==
    [n |-> a.n + b.n, d |-> a.d * b.d, s |-> a.s * b.d + b.s * a.d,
     q |-> a.q * b.d * b.d + b.q * a.d * a.d]

RECURSIVE SumsBetween(_, _, _)
SumsBetween(xs, lo, hi) ==
    IF lo > hi THEN NoSums
    ELSE IF lo = hi THEN SumsOfCell(xs[lo])
    ELSE LET mid == (lo + hi) \div 2
         IN  AddSums(SumsBetween(xs, lo, mid), SumsBetween(xs, mid + 1, hi))

Sums(xs) == SumsBetween(xs, 1, Len(xs))

HasNaN(xs) == \E k \in DOMAIN xs : IsNaN(xs[k])

\* The mean of the cells summed in x (x.n > 0).
MeanOf(x) == Rat(x.s, x.d * x.n)

\* Their standard deviation with ddof delta degrees of freedom (held as the
\* variance): NaN when x.n - ddof is not positive.
StdOf(x, ddof) ==
    IF x.n - ddof <= 0 THEN NaN
    ELSE Rat(x.n * x.q - x.s * x.s, x.d * x.d * x.n * (x.n - ddof))

----------------------------------------------------------------------------
(* Calendar (pandas Timestamp arithmetic and the .dt accessors)            *)

Hour1 == 60

Day1 == 24 * Hour1

IsLeap(y) == (y % 4 = 0 /\ y % 100 # 0) \/ y % 400 = 0

DaysInYear(y) == IF IsLeap(y) THEN 366 ELSE 365

DaysInMonth(y, m) ==
    CASE m \in {1, 3, 5, 7, 8, 10, 12} -> 31
      [] m \in {4, 6, 9, 11} -> 30
      [] OTHER -> IF IsLeap(y) THEN 29 ELSE 28

RECURSIVE DaysBeforeYear(_)
DaysBeforeYear(y) == IF y <= 2019 THEN 0 ELSE DaysBeforeYear(y - 1) + DaysInYear(y - 1)

RECURSIVE DaysBeforeMonth(_, _)
DaysBeforeMonth(y, m) == IF m <= 1 THEN 0 ELSE DaysBeforeMonth(y, m - 1) + DaysInMonth(y, m - 1)

\* pd.Timestamp(year, month, day) plus a time of day.
Timestamp(y, m, d, h, mi) ==
    ((DaysBeforeYear(y) + DaysBeforeMonth(y, m) + d - 1) * 24 + h) * Hour1 + mi

\* The year that day dn of year y onward falls in, and the day within it.
YearFrom(y, dn) ==
    LET from[a \in Int \X Int] ==
            IF a[2] < DaysInYear(a[1]) THEN a ELSE from[<<a[1] + 1, a[2] - DaysInYear(a[1])>>]
    IN  from[<<y, dn>>]

\* The month that day dn of month m onward falls in, and the day within it.
MonthFrom(y, m, dn) ==
    LET from[a \in Int \X Int] ==
            IF a[2] < DaysInMonth(y, a[1]) THEN a
            ELSE from[<<a[1] + 1, a[2] - DaysInMonth(y, a[1])>>]
    IN  from[<<m, dn>>]

\* The civil fields of a timestamp: what ts.dt.year, .month, .day, .hour,
\* .minute, .dayofyear and .dayofweek (Monday = 0) return.
Fields(t) ==
    LET dn == t \div Day1
        yd == YearFrom(2019, dn)
        md == MonthFrom(yd[1], 1, yd[2])
    IN  [year |-> yd[1], month |-> md[1], day |-> md[2] + 1,
         hour |-> (t % Day1) \div Hour1, minute |-> t % Hour1,
         dayofyear |-> yd[2] + 1, dayofweek |-> (dn + 1) % 7]

\* pd.to_datetime("YYYY-MM-DD"): midnight of that date.
ToDatetime(date) == Timestamp(date[1], date[2], date[3], 0, 0)

\* ts.strftime("%Y-%m-%d"): the date of a timestamp, its time of day dropped.
Strftime(t) == LET f == Fields(t) IN <<f.year, f.month, f.day>>

----------------------------------------------------------------------------
(* Generic table helpers                                                   *)

Range(s) == {s[k] : k \in DOMAIN s}

SetMin(S) == CHOOSE x \in S : \A y \in S : x <= y

\* The permutations of the set S, each as a sequence.
PermsOf(S) ==
    LET k == Cardinality(S)
    IN  {g \in [1..k -> S] : \A a, b \in 1..k : a # b => g[a] # g[b]}

\* df.sort_values("time").reset_index(drop=True).  The default kind is
\* quicksort, which is not stable: rows come out in ascending time, and rows
\* with equal times in any order.  The set of tables the call can return.
SortValues(tbl) ==
    LET n    == Len(tbl)
        \* one ascending order
        st   == SortSeq(tbl, LAMBDA a, b : a.time < b.time)
        \* the positions of st that share their timestamp with a neighbour
        tied == {k \in 1..n : \/ (k > 1 /\ st[k - 1].time = st[k].time)
                              \/ (k < n /\ st[k + 1].time = st[k].time)}
    IN  IF tied = {} THEN {st}
        ELSE LET group  == [k \in tied |-> {j \in tied : st[j].time = st[k].time}]
                 ties   == {group[k] : k \in tied}
                 orders == {f \in [ties -> UNION {PermsOf(g) : g \in ties}] :
                               \A g \in ties : f[g] \in PermsOf(g)}
             IN  {[k \in 1..n |->
                     IF k \in tied
                     THEN st[f[group[k]][k - SetMin(group[k]) + 1]]
                     ELSE st[k]]
                  : f \in orders}

\* Series.is_monotonic_increasing: non-decreasing (equal neighbours pass).
IsMonotonicIncreasing(tbl) ==
    \A k \in 1..(Len(tbl) - 1) : tbl[k].time <= tbl[k + 1].time

\* Series.diff().dropna(): the consecutive deltas, first row's NaT dropped.
Diffs(tbl) == [k \in 1..(Len(tbl) - 1) |-> tbl[k + 1].time - tbl[k].time]

\* A file that has not been written.
NoFile == [written |-> FALSE, rows |-> <<>>]

\* df.to_csv(path, index=False), read back by pd.read_csv + pd.to_datetime.
ToCsv(tbl) == [written |-> TRUE, rows |-> tbl]

\* make_year_chunks not called.
ChunksIdle ==
    /\ start_date = <<>>
    /\ end_date = <<>>
    /\ year = 0
    /\ chunks = <<>>
    /\ parts = <<>>

\* build_infer_features not called.
InferIdle ==
    /\ t0 = <<>>
    /\ t1 = <<>>
    /\ infer_csv = NoFile

----------------------------------------------------------------------------
(* api_xgb_data.py                                                         *)

\* START_DATE and END_DATE: the configured range, scaled to two days that
\* straddle a year boundary so that the range still splits into two chunks.
START_DATE == <<2024, 12, 31>>

END_DATE == <<2025, 1, 1>>

\* The loop body's chunk for year y: Jan 1 .. Dec 31 of y, clipped to
\* start .. end.
YearChunk_Unclipped(y, start, end) ==
    <<Strftime(Timestamp(y, 1, 1, 0, 0)), Strftime(Timestamp(y, 12, 31, 0, 0))>>

\* The loop body: the (sub_start, sub_end) appended for year y.
YearChunk(y, start, end) ==
    LET y0 == Timestamp(y, 1, 1, 0, 0)
        y1 == Timestamp(y, 12, 31, 0, 0)
        s  == Max2(start, y0)
        e  == Min2(end, y1)
    IN  <<Strftime(s), Strftime(e)>>

RECURSIVE YearLoop(_, _, _, _)
YearLoop(y, start, end, acc) ==
    IF y <= Fields(end).year
    THEN YearLoop(y + 1, start, end, Append(acc, YearChunk(y, start, end)))
    ELSE acc

\* make_year_chunks(start_date, end_date): the list of (sub_start, sub_end).
make_year_chunks(start_date_, end_date_) ==
    LET start == ToDatetime(start_date_)
        end   == ToDatetime(end_date_)
    IN  YearLoop(Fields(start).year, start, end, <<>>)

year_chunks == make_year_chunks(START_DATE, END_DATE)

\* fetch_weather that accepts every answer.
fetch_weather_AcceptAll(resp) == ""

\* fetch_weather: "" when the answer is returned, else the RuntimeError raised.
\* A response is [status, keys, rows]: keys are the fields present among
\* hourly, hourly.time and hourly.temperature_2m.
fetch_weather(resp) ==
    IF resp.status # 200 THEN "RuntimeError: API request failed"
    ELSE IF ~({"hourly", "time", "temperature_2m"} \subseteq resp.keys)
         THEN "RuntimeError: API response is missing fields"
         ELSE ""

\* json_to_dataframe(data): the (time, temp_obs) frames it can return.
json_to_dataframe(resp) == SortValues(resp.rows)

\* clip_to_exact_range whose upper end is end 00:00.
clip_to_exact_range_ToMidnight(tbl, start_date_, end_date_) ==
    LET lo == ToDatetime(start_date_)
        hi == ToDatetime(end_date_)
    IN  SelectSeq(tbl, LAMBDA r : r.time >= lo /\ r.time <= hi)

\* clip_to_exact_range(df, start_date, end_date).
clip_to_exact_range(tbl, start_date_, end_date_) ==
    LET lo == ToDatetime(start_date_)
        hi == ToDatetime(end_date_) + 23 * Hour1
    IN  SelectSeq(tbl, LAMBDA r : r.time >= lo /\ r.time <= hi)

RECURSIVE Concat(_)
Concat(tbls) == IF tbls = <<>> THEN <<>> ELSE Head(tbls) \o Concat(Tail(tbls))

\* drop_duplicates that removes nothing.
drop_duplicates_KeepAll(tbl) == tbl

\* df.drop_duplicates(subset=["time"], keep="first").reset_index(drop=True):
\* the rows no earlier row shares a timestamp with, in their order.
drop_duplicates(tbl) ==
    LET kept == {k \in DOMAIN tbl : \A j \in 1..(k - 1) : tbl[j].time # tbl[k].time}
    IN  [i \in 1..Cardinality(kept) |->
            tbl[CHOOSE k \in kept : Cardinality({j \in kept : j < k}) = i - 1]]

\* (diffs != pd.Timedelta(hours=1)).sum()
NonHourlySteps(tbl) == Cardinality({k \in DOMAIN Diffs(tbl) : Diffs(tbl)[k] # Hour1})

\* The two sanity assertions of the script, in order: "" or the failure.
SanityChecks(tbl) ==
    IF ~IsMonotonicIncreasing(tbl)
    THEN "AssertionError: Timestamps are not strictly increasing."
    ELSE IF ~(\A k \in DOMAIN tbl : Fields(tbl[k].time).hour \in 0..23)
         THEN "AssertionError: There are non-hourly timestamps."
         ELSE ""

\* One pass of the fetch loop: the next chunk, in chunk order.
FetchChunk ==
    /\ pc = "api_fetch"
    /\ Len(dfs) < Len(year_chunks)
    /\ LET c    == year_chunks[Len(dfs) + 1]
           resp == responses[Len(dfs) + 1]
           e    == fetch_weather(resp)
       IN  IF e # ""
           THEN /\ pc' = "failed"
                /\ err' = e
                /\ dfs' = dfs
           ELSE /\ \E part \in json_to_dataframe(resp) :
                      dfs' = Append(dfs, clip_to_exact_range(part, c[1], c[2]))
                /\ UNCHANGED <<pc, err>>
    /\ UNCHANGED <<responses, dropped, bad, raw_csv, staging_csv, cutoff, df,
                   train_csv, test_df, clim_csv,
                   chunkVars, inferVars>>

\* After the loop: merge, sort, de-duplicate, check, count, save both files.
Normalize ==
    /\ pc = "api_fetch"
    /\ Len(dfs) = Len(year_chunks)
    /\ IF Len(dfs) = 0
       THEN /\ pc' = "failed"
            /\ err' = "RuntimeError: No data fetched."
            /\ UNCHANGED <<dropped, bad, raw_csv, staging_csv>>
       ELSE \E sorted \in SortValues(Concat(dfs)) :
              LET df_all == drop_duplicates(sorted)
                  e      == SanityChecks(df_all)
              IN  /\ dropped' = Len(sorted) - Len(df_all)
                  /\ IF e # ""
                     THEN /\ pc' = "failed"
                          /\ err' = e
                          /\ UNCHANGED <<bad, raw_csv, staging_csv>>
                     ELSE /\ bad' = NonHourlySteps(df_all)
                          /\ raw_csv' = ToCsv(df_all)
                          /\ staging_csv' = ToCsv(df_all)
                          /\ pc' = "bf_main"
                          /\ err' = ""
    /\ UNCHANGED <<responses, dfs, cutoff, df, train_csv, test_df, clim_csv,
                   chunkVars, inferVars>>

----------------------------------------------------------------------------
(* build_features.py                                                       *)

\* np.sin / np.cos of 2*pi*num/den, kept symbolic.
Cyc(fn, num, den) == [fn |-> fn, num |-> num, den |-> den]

\* add_time_features(df, "time") for one row.
TimeFeaturesOf(r) ==
    LET f == Fields(r.time)
    IN  [hour |-> f.hour, day_of_week |-> f.dayofweek,
         is_weekend |-> IF f.dayofweek >= 5 THEN 1 ELSE 0,
         sin_hour |-> Cyc("sin", f.hour, 24), cos_hour |-> Cyc("cos", f.hour, 24),
         sin_doy |-> Cyc("sin", f.dayofyear, 365), cos_doy |-> Cyc("cos", f.dayofyear, 365)]

\* Record r extended with the fields of record x.
Extend(r, x) ==
    [c \in (DOMAIN r) \cup (DOMAIN x) |-> IF c \in DOMAIN x THEN x[c] ELSE r[c]]

add_time_features(tbl) == [k \in DOMAIN tbl |-> Extend(tbl[k], TimeFeaturesOf(tbl[k]))]

\* check_hourly(df, "time"): "" or the ValueError it raises.
check_hourly(tbl) ==
    IF ~IsMonotonicIncreasing(tbl)
    THEN "ValueError: Timestamps are not sorted ascending."
    ELSE IF ~(Range(Diffs(tbl)) \subseteq {Hour1, 0})
         THEN "ValueError: Found non-hourly gaps in the time series."
         ELSE ""

lags == <<1, 24, 48, 72, 168>>

\* Series.shift(L): the value L positions earlier, NaN where there is none.
Shift(col, L) == [k \in DOMAIN col |-> IF k - L \in DOMAIN col THEN col[k - L] ELSE NaN]

\* The positions Series.rolling(W) gives row k: the W rows ending at k itself.
RollingWindow(k, W) == Max2(1, k - W + 1)..k

\* rolling(W, min_periods).mean() and .std() (ddof = 1) at row k.
RollingAt(col, k, W, min_periods) ==
    LET w  == RollingWindow(k, W)
        lo == SetMin(w)
        x  == Sums(SubSeq(col, lo, k))
    IN  IF x.n < min_periods THEN [mean |-> NaN, std |-> NaN]
        ELSE [mean |-> MeanOf(x), std |-> StdOf(x, 1)]

\* Step 4 of build_train_features: lags, first difference, rolling stats.
AddHistoryFeatures(tbl) ==
    LET col == [k \in DOMAIN tbl |-> tbl[k].temp_obs]
        l1   == Shift(col, lags[1])
        l24  == Shift(col, lags[2])
        l48  == Shift(col, lags[3])
        l72  == Shift(col, lags[4])
        l168 == Shift(col, lags[5])
        s2   == Shift(col, 2)
    IN  [k \in DOMAIN tbl |->
            LET r24  == RollingAt(col, k, 24, 24)
                r168 == RollingAt(col, k, 168, 24)
            IN  Extend(tbl[k],
                   [temp_lag_1 |-> l1[k], temp_lag_24 |-> l24[k], temp_lag_48 |-> l48[k],
                    temp_lag_72 |-> l72[k], temp_lag_168 |-> l168[k],
                    temp_diff_1 |-> Sub(l1[k], s2[k]),
                    roll_mean_24 |-> r24.mean, roll_mean_168 |-> r168.mean,
                    roll_std_24 |-> r24.std, roll_std_168 |-> r168.std])]

\* The columns of the training frame that can hold NaN (the calendar columns
\* and time never do).
FloatCols ==
    {"temp_obs", "temp_lag_1", "temp_lag_24", "temp_lag_48", "temp_lag_72",
     "temp_lag_168", "temp_diff_1", "roll_mean_24", "roll_mean_168",
     "roll_std_24", "roll_std_168"}

\* df.dropna().reset_index(drop=True)
dropna(tbl) == SelectSeq(tbl, LAMBDA r : \A c \in FloatCols : ~IsNaN(r[c]))

\* ClipToCutoff with the comparison forgotten: every row is kept.
ClipToCutoff_Unclipped(tbl, cutoff_ts) == tbl

\* df[df["time"] <= cutoff_ts]
ClipToCutoff(tbl, cutoff_ts) == SelectSeq(tbl, LAMBDA r : r.time <= cutoff_ts)

\* Steps 2 to 6 of build_train_features on the sorted, checked frame: the
\* rows written, or the error raised.
TrainFrame(sorted, cutoff_ts) ==
    LET clipped == ClipToCutoff(sorted, cutoff_ts)
    IN  IF clipped = <<>>
        THEN [err |-> "ValueError: Training data is empty after applying the cutoff.",
              rows |-> <<>>]
        ELSE [err |-> "", rows |-> dropna(AddHistoryFeatures(add_time_features(clipped)))]

\* build_train_features(STAGING_PATH, CUTOFF, TRAIN_OUT).
BuildTrainFeatures ==
    /\ pc = "bf_main"
    /\ \E sorted \in SortValues(staging_csv.rows) :
          LET e   == check_hourly(sorted)
              out == TrainFrame(sorted, cutoff)
          IN  IF e # ""
              THEN /\ pc' = "failed"
                   /\ err' = e
                   /\ UNCHANGED <<df, train_csv>>
              ELSE IF out.err # ""
                   THEN /\ pc' = "failed"
                        /\ err' = out.err
                        /\ df' = ClipToCutoff(sorted, cutoff)
                        /\ UNCHANGED train_csv
                   ELSE /\ pc' = "bf_infer"
                        /\ err' = ""
                        /\ df' = out.rows
                        /\ train_csv' = ToCsv(out.rows)
    /\ UNCHANGED <<responses, dfs, dropped, bad, raw_csv, staging_csv, cutoff,
                   test_df, clim_csv,
                   chunkVars, inferVars>>

----------------------------------------------------------------------------
(* Training feature build on its own: build_train_features over staging    *)
(* tables of every shape check_hourly lets through, and some it rejects.   *)

\* CUTOFF = "2025-09-16 23:00"
CUTOFF == Timestamp(2025, 9, 16, 23, 0)

\* How many rows a staging table has beyond the 168 the longest lag consumes.
TrainExtra == 3

\* How many hours past CUTOFF a staging table may end.
TrainAfter == 1

\* A staging table of n hourly rows whose last row is at `last`.  kind:
\*   "clean"  strictly hourly
\*   "dup"    row pos repeats the timestamp of row pos-1 (DST fall-back)
\*   "gap"    an hour is missing before row pos (DST spring-forward)
\*   "nan"    the observation of row pos is missing
\* pattern "ramp" makes every observation distinct, "const" all equal.
StagingTable(n, last, kind, pos, pattern) ==
    [k \in 1..n |->
        [time |-> last - (n - k) * Hour1
                  + (IF kind = "dup" /\ k < pos THEN Hour1 ELSE 0)
                  - (IF kind = "gap" /\ k < pos THEN Hour1 ELSE 0),
         temp_obs |-> IF kind = "nan" /\ k = pos THEN NaN
                      ELSE IF pattern = "ramp" THEN Num(k) ELSE Num(7)]]

TrainLens == {2, 30} \cup {168 + e : e \in 1..TrainExtra}

TrainShapes(n) ==
    {<<"clean", 0>>} \cup
    (IF n > 168
     THEN {<<"dup", n - 1>>, <<"dup", 100>>, <<"gap", 100>>, <<"nan", n - 72>>, <<"nan", n - 2>>}
     ELSE {<<"dup", 2>>, <<"gap", 2>>})

InitTrain ==
    /\ pc = "bf_main"
    /\ err = ""
    /\ responses = <<>>
    /\ dfs = <<>>
    /\ dropped = 0
    /\ bad = 0
    /\ raw_csv = NoFile
    /\ cutoff = CUTOFF
    /\ \E n \in TrainLens, pattern \in {"ramp", "const"}, after \in -1..TrainAfter :
          \E shape \in TrainShapes(n) :
             staging_csv = ToCsv(StagingTable(n,
                                  IF after < 0 THEN CUTOFF + (n + 5) * Hour1
                                  ELSE CUTOFF + after * Hour1,
                                  shape[1], shape[2], pattern))
    /\ df = <<>>
    /\ train_csv = NoFile
    /\ test_df = <<>>
    /\ clim_csv = NoFile
    /\ ChunksIdle
    /\ InferIdle

NextTrain == BuildTrainFeatures

SpecTrain == InitTrain /\ [][NextTrain]_vars

----------------------------------------------------------------------------
(* Claims about the training feature build (SpecTrain)                     *)

\* The rows build_train_features has written.
TrainWritten == IF pc = "bf_infer" /\ train_csv.written THEN Range(train_csv.rows) ELSE {}

LagCol(L) ==
    CASE L = 1 -> "temp_lag_1" [] L = 24 -> "temp_lag_24" [] L = 48 -> "temp_lag_48"
      [] L = 72 -> "temp_lag_72" [] L = 168 -> "temp_lag_168"

\* C1, as claimed: in every staging table build_train_features accepts, each
\* temp_lag_L of a written row is the temp_obs of a row of that table whose
\* timestamp is exactly L hours before the row's own.
C1_LagIsObservationLHoursEarlier ==
    \A r \in TrainWritten : \A i \in DOMAIN lags :
        \E o \in Range(staging_csv.rows) :
            /\ o.time = r.time - lags[i] * Hour1
            /\ o.temp_obs = r[LagCol(lags[i])]

\* The observations of the staging table in the W hours that end one hour
\* before t.
ObsBefore(t, W) ==
    LET past == SelectSeq(staging_csv.rows,
                          LAMBDA o : t - W * Hour1 <= o.time /\ o.time <= t - Hour1)
    IN  [k \in DOMAIN past |-> past[k].temp_obs]

\* C2, as claimed: the rolling mean and std of a written row at t are those
\* of the observations of the W hours ending at t-1, the row's own
\* observation not among them.
C2_RollingWindowEndsBeforeRow ==
    \A r \in TrainWritten :
        LET x24  == Sums(ObsBefore(r.time, 24))
            x168 == Sums(ObsBefore(r.time, 168))
        IN  /\ x24.n >= 24 => r.roll_mean_24 = MeanOf(x24) /\ r.roll_std_24 = StdOf(x24, 1)
            /\ x168.n >= 24 => r.roll_mean_168 = MeanOf(x168) /\ r.roll_std_168 = StdOf(x168, 1)

\* C3: every written row is at or before the cutoff, and it is a row the
\* build also produces from the staging table with every observation later
\* than the row's own timestamp deleted: nothing later than the row (hence
\* nothing after the cutoff) enters any of its lag, diff or rolling values.
C3_NoFutureInTrainRow ==
    \A r \in TrainWritten :
        /\ r.time <= cutoff
        /\ \E past \in SortValues(SelectSeq(staging_csv.rows, LAMBDA o : o.time <= r.time)) :
              r \in Range(TrainFrame(past, cutoff).rows)

\* C3 witness: rows were written from a staging table that also holds
\* observations after the cutoff.
C3_Witness ==
    /\ TrainWritten # {}
    /\ \E o \in Range(staging_csv.rows) : o.time > cutoff
    /\ \E r \in TrainWritten : r.time = cutoff /\ r.temp_lag_1 # r.temp_lag_24

----------------------------------------------------------------------------
(* test_truth.py                                                           *)

\* TEST_START = "2025-09-17"
TEST_START == <<2025, 9, 17>>

\* The default of use_climatology_years.
use_climatology_years == {2020, 2021, 2022, 2023, 2024}

lag_configs == <<1, 24, 48, 72, 168>>

\* Part 3: the history table with its month, day, hour and year columns.
HistoryDf(rows) ==
    [k \in DOMAIN rows |->
        LET f == Fields(rows[k].time)
        IN  Extend(rows[k], [month |-> f.month, day |-> f.day, hour |-> f.hour, year |-> f.year])]

TempsOf(tbl) == [k \in DOMAIN tbl |-> tbl[k].temp_obs]

\* Series.mean(): NaN cells skipped, NaN when nothing is left.
SeriesMean(xs) == LET x == Sums(xs) IN IF x.n = 0 THEN NaN ELSE MeanOf(x)

\* np.mean(list) and np.std(list): NaN as soon as one cell is NaN; ddof = 0.
NpMean(xs) == IF HasNaN(xs) THEN NaN ELSE MeanOf(Sums(xs))

NpStd(xs) == IF HasNaN(xs) THEN NaN ELSE StdOf(Sums(xs), 0)

\* ClimatologyData without the comparison of the day of the month.
ClimatologyData_AnyDay(at, history_df, years) ==
    LET f == Fields(at)
    IN  SelectSeq(history_df,
                  LAMBDA h : /\ h.month = f.month
                             /\ h.hour = f.hour
                             /\ h.year \in years)

\* The climatology selection of both functions for the timestamp at: the
\* history rows of the reference years with at's month, day and hour.
ClimatologyData(at, history_df, years) ==
    LET f == Fields(at)
    IN  SelectSeq(history_df,
                  LAMBDA h : /\ h.month = f.month
                             /\ h.day = f.day
                             /\ h.hour = f.hour
                             /\ h.year \in years)

\* get_lag_value with the two lookups in the wrong order: the climatology
\* mean wins over an observation at the lagged hour.
get_lag_value_ClimatologyFirst(target_time, lag_hours, history_df, years) ==
    LET lag_time         == target_time - lag_hours * Hour1
        real_value       == SelectSeq(history_df, LAMBDA h : h.time = lag_time)
        climatology_data == ClimatologyData(lag_time, history_df, years)
    IN  IF Len(climatology_data) > 0
        THEN [value |-> SeriesMean(TempsOf(climatology_data)), source |-> "climatology"]
        ELSE IF Len(real_value) > 0
             THEN [value |-> real_value[1].temp_obs, source |-> "real"]
             ELSE [value |-> NaN, source |-> "missing"]

\* get_lag_value(target_time, lag_hours, history_df, use_climatology_years)
get_lag_value(target_time, lag_hours, history_df, years) ==
    LET lag_time         == target_time - lag_hours * Hour1
        real_value       == SelectSeq(history_df, LAMBDA h : h.time = lag_time)
        climatology_data == ClimatologyData(lag_time, history_df, years)
    IN  IF Len(real_value) > 0
        THEN [value |-> real_value[1].temp_obs, source |-> "real"]
        ELSE IF Len(climatology_data) > 0
             THEN [value |-> SeriesMean(TempsOf(climatology_data)), source |-> "climatology"]
             ELSE [value |-> NaN, source |-> "missing"]

\* The temps list get_rolling_stats has built after the first k of its
\* window_hours timestamps target_time - 1h, - 2h, ...
RECURSIVE RollingTemps(_, _, _, _, _)
RollingTemps(target_time, lo, hi, history_df, years) ==
    IF lo > hi THEN <<>>
    ELSE IF lo = hi
    THEN LET t    == target_time - lo * Hour1
             real == SelectSeq(history_df, LAMBDA h : h.time = t)
             clim == ClimatologyData(t, history_df, years)
         IN  IF Len(real) > 0 THEN <<real[1].temp_obs>>
             ELSE IF Len(clim) > 0 THEN <<SeriesMean(TempsOf(clim))>>
             ELSE <<>>
    ELSE LET mid == (lo + hi) \div 2
         IN  RollingTemps(target_time, lo, mid, history_df, years)
             \o RollingTemps(target_time, mid + 1, hi, history_df, years)

\* RollingThreshold without the floor of 24.
RollingThreshold_HalfOnly(window_hours) == window_hours \div 2

\* max(24, int(window_hours * 0.5))
RollingThreshold(window_hours) == Max2(24, window_hours \div 2)

\* get_rolling_stats(target_time, window_hours, history_df, use_climatology_years)
get_rolling_stats(target_time, window_hours, history_df, years) ==
    LET temps == RollingTemps(target_time, 1, window_hours, history_df, years)
    IN  IF Len(temps) >= RollingThreshold(window_hours)
        THEN [mean |-> NpMean(temps), std |-> NpStd(temps)]
        ELSE [mean |-> NaN, std |-> NaN]

SourceCol(L) ==
    CASE L = 1 -> "temp_lag_1_source" [] L = 24 -> "temp_lag_24_source"
      [] L = 48 -> "temp_lag_48_source" [] L = 72 -> "temp_lag_72_source"
      [] L = 168 -> "temp_lag_168_source"

\* One pass of the lag loop: the columns temp_lag_L and temp_lag_L_source.
AddLagColumns(tbl, L, history_df) ==
    [k \in DOMAIN tbl |->
        LET v == get_lag_value(tbl[k].time, L, history_df, use_climatology_years)
        IN  Extend(tbl[k], (LagCol(L) :> v.value) @@ (SourceCol(L) :> v.source))]

RECURSIVE LagLoop(_, _, _)
LagLoop(tbl, i, history_df) ==
    IF i > Len(lag_configs) THEN tbl
    ELSE LagLoop(AddLagColumns(tbl, lag_configs[i], history_df), i + 1, history_df)

\* How many rows the test-period response holds at most.
TestRows == 1

\* How many of the scattered history rows a history table holds at most.
MaxExtra == 3

\* The test-period timestamps the responses are drawn from: the first hour
\* of the period, whose lags all fall before it, and 05:00 of the first day,
\* whose last five hours fall inside the period.
TestTimes == <<ToDatetime(TEST_START), ToDatetime(TEST_START) + 5 * Hour1>>

\* What the archive can answer for the test period: a failure, or up to
\* TestRows of the test timestamps with their observations.
TestResponses ==
    {[status |-> 500, rows |-> <<>>]} \cup
    {[status |-> 200,
      rows |-> [k \in 1..Cardinality(S) |->
                  LET i == CHOOSE j \in S : Cardinality({m \in S : m < j}) = k - 1
                  IN  [time |-> TestTimes[i], temp_obs |-> Num(20 + i)]]] :
        S \in {T \in SUBSET DOMAIN TestTimes : Cardinality(T) \in 1..TestRows}}

\* Parts 1 and 2: fetch the test period and add the calendar columns.
TTFetch ==
    /\ pc = "tt_main"
    /\ \E resp \in TestResponses :
          IF resp.status # 200
          THEN /\ pc' = "failed"
               /\ err' = "HTTPError"
               /\ UNCHANGED test_df
          ELSE /\ \E sorted \in SortValues(resp.rows) : test_df' = add_time_features(sorted)
               /\ pc' = "tt_lags"
               /\ err' = ""
    /\ UNCHANGED <<responses, dfs, dropped, bad, raw_csv, staging_csv, cutoff, df,
                   train_csv, clim_csv,
                   chunkVars, inferVars>>

\* Parts 3 and 4: read the history, run the lag loop over lag_configs.
TTLags ==
    /\ pc = "tt_lags"
    /\ test_df' = LagLoop(test_df, 1, HistoryDf(staging_csv.rows))
    /\ pc' = "tt_diff"
    /\ UNCHANGED <<err, responses, dfs, dropped, bad, raw_csv, staging_csv, cutoff, df,
                   train_csv, clim_csv,
                   chunkVars, inferVars>>

\* Part 5, first statement: temp_diff_1.
TTDiff ==
    /\ pc = "tt_diff"
    /\ test_df' = [k \in DOMAIN test_df |->
                      Extend(test_df[k],
                             [temp_diff_1 |->
                                 Sub(test_df[k].temp_lag_1,
                                     get_lag_value(test_df[k].time, 2, HistoryDf(staging_csv.rows),
                                                   use_climatology_years).value)])]
    /\ pc' = "tt_roll_24"
    /\ UNCHANGED <<err, responses, dfs, dropped, bad, raw_csv, staging_csv, cutoff, df,
                   train_csv, clim_csv,
                   chunkVars, inferVars>>

\* Part 5, the two rolling loops.
TTRoll24 ==
    /\ pc = "tt_roll_24"
    /\ test_df' = [k \in DOMAIN test_df |->
                      LET x == get_rolling_stats(test_df[k].time, 24, HistoryDf(staging_csv.rows),
                                                 use_climatology_years)
                      IN  Extend(test_df[k], [roll_mean_24 |-> x.mean, roll_std_24 |-> x.std])]
    /\ pc' = "tt_roll_168"
    /\ UNCHANGED <<err, responses, dfs, dropped, bad, raw_csv, staging_csv, cutoff, df,
                   train_csv, clim_csv,
                   chunkVars, inferVars>>

TTRoll168 ==
    /\ pc = "tt_roll_168"
    /\ test_df' = [k \in DOMAIN test_df |->
                      LET x == get_rolling_stats(test_df[k].time, 168, HistoryDf(staging_csv.rows),
                                                 use_climatology_years)
                      IN  Extend(test_df[k], [roll_mean_168 |-> x.mean, roll_std_168 |-> x.std])]
    /\ pc' = "tt_save"
    /\ UNCHANGED <<err, responses, dfs, dropped, bad, raw_csv, staging_csv, cutoff, df,
                   train_csv, clim_csv,
                   chunkVars, inferVars>>

\* Part 6: the table is saved with its source columns.
TTSave ==
    /\ pc = "tt_save"
    /\ clim_csv' = ToCsv(test_df)
    /\ pc' = "tt_done"
    /\ UNCHANGED <<err, responses, dfs, dropped, bad, raw_csv, staging_csv, cutoff, df,
                   train_csv, test_df,
                   chunkVars, inferVars>>

----------------------------------------------------------------------------
(* The evaluation build on its own: test_truth.py over history tables that *)
(* hold a block of recent hours, a block of the same calendar hours one    *)
(* reference year back, and scattered rows around one lagged hour.         *)

\* The last hour of the configured history range.
HistoryEnd == CUTOFF

\* Hourly history rows: the len hours that end at `last`, observations
\* cycling through seven values from base.
Block(last, len, base) ==
    [k \in 1..len |-> [time |-> last - (len - k) * Hour1, temp_obs |-> Num(base + (k % 7))]]

\* Scattered history rows around 2025-09-17 04:00, the hour before the
\* second test timestamp.
ExtraRows ==
    <<[time |-> Timestamp(2023, 9, 17, 4, 0),  temp_obs |-> Num(40)],  \* reference year, same month-day-hour
      [time |-> Timestamp(2022, 9, 17, 4, 0),  temp_obs |-> NaN],      \* the same, observation missing
      [time |-> Timestamp(2019, 9, 17, 4, 0),  temp_obs |-> Num(50)],  \* not a reference year
      [time |-> Timestamp(2023, 9, 17, 5, 0),  temp_obs |-> Num(60)],  \* hour differs
      [time |-> Timestamp(2023, 8, 17, 4, 0),  temp_obs |-> Num(70)],  \* month differs
      [time |-> Timestamp(2023, 9, 16, 4, 0),  temp_obs |-> Num(80)],  \* day differs
      [time |-> Timestamp(2025, 9, 17, 4, 0),  temp_obs |-> Num(90)],  \* the hour itself
      [time |-> Timestamp(2021, 9, 17, 4, 30), temp_obs |-> Num(45)]>> \* reference year, off the hour

\* (hours of recent history, hours of the 2024 block ending 2024-09-17 04:00)
BlockShapes ==
    {<<0, 0>>} \cup ({18, 19, 83, 84} \X {0, 5}) \cup {<<0, 5>>, <<0, 29>>}

HistoryTable(shape, extra) ==
    SortSeq(Block(HistoryEnd, shape[1], 10)
            \o Block(Timestamp(2024, 9, 17, 4, 0), shape[2], 30)
            \o [k \in 1..Cardinality(extra) |->
                  ExtraRows[CHOOSE j \in extra : Cardinality({m \in extra : m < j}) = k - 1]],
            LAMBDA a, b : a.time < b.time)

InitClim ==
    /\ pc = "tt_main"
    /\ err = ""
    /\ responses = <<>>
    /\ dfs = <<>>
    /\ dropped = 0
    /\ bad = 0
    /\ raw_csv = NoFile
    /\ cutoff = CUTOFF
    /\ \E shape \in BlockShapes :
          \E extra \in {X \in SUBSET DOMAIN ExtraRows :
                          Cardinality(X) <= (IF shape = <<0, 0>> THEN MaxExtra ELSE 1)} :
             staging_csv = ToCsv(HistoryTable(shape, extra))
    /\ df = <<>>
    /\ train_csv = NoFile
    /\ test_df = <<>>
    /\ clim_csv = NoFile
    /\ ChunksIdle
    /\ InferIdle

NextClim == TTFetch \/ TTLags \/ TTDiff \/ TTRoll24 \/ TTRoll168 \/ TTSave

SpecClim == InitClim /\ [][NextClim]_vars

----------------------------------------------------------------------------
(* Claims about the evaluation build (SpecClim)                            *)

ProvenanceTags == {"real", "climatology", "missing"}

\* The history observations at exactly the timestamp at.
ObservedAt(at) == SelectSeq(staging_csv.rows, LAMBDA h : h.time = at)

\* The civil fields of every history row.
HistoryCalendar == [k \in DOMAIN staging_csv.rows |-> Fields(staging_csv.rows[k].time)]

\* The history observations of the reference years that share the month,
\* day and hour of the timestamp at (cal is HistoryCalendar).
SameCalendarHour(cal, at) ==
    LET f    == Fields(at)
        same == {k \in DOMAIN cal : /\ cal[k].month = f.month
                                    /\ cal[k].day = f.day
                                    /\ cal[k].hour = f.hour
                                    /\ cal[k].year \in use_climatology_years}
    IN  [i \in 1..Cardinality(same) |->
            staging_csv.rows[CHOOSE k \in same : Cardinality({j \in same : j < k}) = i - 1]]

\* The arithmetic mean of the observations a sequence of rows holds (a row
\* whose temp_obs is missing holds none).
ArithmeticMean(rows) ==
    LET x == Sums([k \in DOMAIN rows |-> rows[k].temp_obs])
    IN  IF x.n = 0 THEN NaN ELSE Rat(x.s, x.d * x.n)

\* The rows of the evaluation frame once the lag loop has run.
LaggedRows == {r \in Range(test_df) : "temp_lag_168_source" \in DOMAIN r}

\* C4: get_lag_value resolves real, then climatology, then missing, and
\* returns exactly one of the three tags: an observation at t-L is returned
\* as it is, tagged real; with none, the mean of the reference-year matches
\* tagged climatology; with neither, the missing marker tagged missing.
C4_LagResolutionOrder ==
    \A r \in LaggedRows : \A i \in DOMAIN lag_configs :
        LET L       == lag_configs[i]
            exact   == ObservedAt(r.time - L * Hour1)
            matches == SameCalendarHour(HistoryCalendar, r.time - L * Hour1)
            value   == r[LagCol(L)]
            tag     == r[SourceCol(L)]
        IN  /\ tag \in ProvenanceTags
            /\ Len(exact) > 0 => tag = "real" /\ value = exact[1].temp_obs
            /\ Len(exact) = 0 /\ Len(matches) > 0 =>
                  tag = "climatology" /\ value = ArithmeticMean(matches)
            /\ Len(exact) = 0 /\ Len(matches) = 0 => tag = "missing" /\ IsNaN(value)

\* C4 witness: one written row carries all three tags, the real one although
\* reference-year matches for that hour exist too.
C4_Witness ==
    \E r \in LaggedRows :
        /\ {r[SourceCol(lag_configs[i])] : i \in DOMAIN lag_configs} = ProvenanceTags
        /\ \E i \in DOMAIN lag_configs :
              /\ r[SourceCol(lag_configs[i])] = "real"
              /\ Len(SameCalendarHour(HistoryCalendar, r.time - lag_configs[i] * Hour1)) > 0

\* C5, as claimed: a climatology value is the mean of the reference-year
\* rows sharing the month, day and hour of the target timestamp t.
C5_ClimatologyOfTargetHour ==
    \A r \in LaggedRows : \A i \in DOMAIN lag_configs :
        r[SourceCol(lag_configs[i])] = "climatology" =>
            r[LagCol(lag_configs[i])] = ArithmeticMean(SameCalendarHour(HistoryCalendar, r.time))

\* C5, amended: a climatology value is the mean of the reference-year rows
\* sharing the month, day and hour of the lagged timestamp t-L: all of them
\* and no other row.
C5_ClimatologyOfLaggedHour ==
    \A r \in LaggedRows : \A i \in DOMAIN lag_configs :
        r[SourceCol(lag_configs[i])] = "climatology" =>
            r[LagCol(lag_configs[i])] =
                ArithmeticMean(SameCalendarHour(HistoryCalendar, r.time - lag_configs[i] * Hour1))

\* C5 witness: a climatology value averaged from two reference-year rows
\* while the history also holds a row of another year, hour, month or day.
C5_Witness ==
    \E r \in LaggedRows :
        /\ r.temp_lag_1_source = "climatology"
        /\ ~IsNaN(r.temp_lag_1)
        /\ Len(SameCalendarHour(HistoryCalendar, r.time - Hour1)) >= 2
        /\ \E h \in Range(staging_csv.rows) :
              /\ h \notin Range(SameCalendarHour(HistoryCalendar, r.time - Hour1))
              /\ Fields(h.time).minute = 0

\* What the claim has get_rolling_stats collect for hour k of the window:
\* <<v>> with v the observation at t-k or else that hour's climatology mean,
\* <<>> when the hour has neither.
Collected(cal, t, k) ==
    LET exact   == ObservedAt(t - k * Hour1)
        matches == SameCalendarHour(cal, t - k * Hour1)
    IN  IF Len(exact) > 0 THEN <<exact[1].temp_obs>>
        ELSE IF Len(matches) > 0 THEN <<ArithmeticMean(matches)>>
        ELSE <<>>

\* The (mean, std) the claim states for the window of W hours before t:
\* over the collected values when at least max(24, W/2) were collected (a
\* collected value that is itself missing leaves no mean to take).
ClaimedStats(cells, W) ==
    LET got    == {k \in 1..W : cells[k] # <<>>}
        x      == Sums([k \in 1..W |-> IF k \in got THEN cells[k][1] ELSE NaN])
        enough == Cardinality(got) >= Max2(24, W \div 2)
    IN  IF enough /\ x.n = Cardinality(got)
        THEN [mean |-> Rat(x.s, x.d * x.n),
              std  |-> Rat(x.n * x.q - x.s * x.s, x.d * x.d * x.n * x.n),
              full |-> Cardinality(got) = W]
        ELSE [mean |-> NaN, std |-> NaN, full |-> Cardinality(got) = W]

ClaimedRollingStats(cal, t, W) == ClaimedStats([k \in 1..W |-> Collected(cal, t, k)], W)

\* C6: get_rolling_stats returns the mean and std of the values collected
\* over t-1 .. t-W (real, else climatology, else nothing) when at least
\* max(24, W/2) were collected, else two missing markers; for W = 24 one
\* hour with neither value makes both missing.
C6_RollingStats ==
    \A r \in Range(test_df) :
        /\ "roll_mean_24" \in DOMAIN r =>
              LET c == ClaimedRollingStats(HistoryCalendar, r.time, 24)
              IN  /\ r.roll_mean_24 = c.mean /\ r.roll_std_24 = c.std
                  /\ ~c.full => IsNaN(r.roll_mean_24) /\ IsNaN(r.roll_std_24)
        /\ "roll_mean_168" \in DOMAIN r =>
              LET c == ClaimedRollingStats(HistoryCalendar, r.time, 168)
              IN  r.roll_mean_168 = c.mean /\ r.roll_std_168 = c.std

\* C6 witness: a 24-hour result computed from exactly 24 collected values,
\* some real and some climatology, beside a 168-hour result that is missing
\* for want of 84 values.
C6_Witness ==
    \E r \in Range(test_df) :
        /\ "roll_mean_168" \in DOMAIN r
        /\ ~IsNaN(r.roll_mean_24) /\ ~IsNaN(r.roll_std_24)
        /\ Len(ObservedAt(r.time - Hour1)) = 0
        /\ Len(ObservedAt(r.time - 24 * Hour1)) > 0
        /\ IsNaN(r.roll_mean_168) /\ IsNaN(r.roll_std_168)

\* The companion column that would carry the provenance of a history column.
TagCol(c) ==
    CASE c = "temp_lag_1" -> "temp_lag_1_source" [] c = "temp_lag_24" -> "temp_lag_24_source"
      [] c = "temp_lag_48" -> "temp_lag_48_source" [] c = "temp_lag_72" -> "temp_lag_72_source"
      [] c = "temp_lag_168" -> "temp_lag_168_source" [] c = "temp_diff_1" -> "temp_diff_1_source"
      [] c = "roll_mean_24" -> "roll_mean_24_source" [] c = "roll_std_24" -> "roll_std_24_source"
      [] c = "roll_mean_168" -> "roll_mean_168_source" [] c = "roll_std_168" -> "roll_std_168_source"

HistoryCols ==
    {"temp_lag_1", "temp_lag_24", "temp_lag_48", "temp_lag_72", "temp_lag_168",
     "temp_diff_1", "roll_mean_24", "roll_std_24", "roll_mean_168", "roll_std_168"}

\* C7, as claimed: in the saved evaluation table every lag, diff and
\* rolling value of every row carries a provenance tag.
C7_EveryHistoryValueTagged ==
    clim_csv.written =>
        \A r \in Range(clim_csv.rows) : \A c \in HistoryCols :
            /\ c \in DOMAIN r
            /\ TagCol(c) \in DOMAIN r
            /\ r[TagCol(c)] \in ProvenanceTags

----------------------------------------------------------------------------
(* The pipeline: api_xgb_data.py, then build_train_features on the staging *)
(* table it saved.                                                         *)

\* How many rows the two chunk responses hold together at most.
MaxRows == 3

\* The timestamps the archive's rows are drawn from: the last hour of the
\* first chunk's day, then 00:00, 00:30, 01:00 and 02:00 of the second's.
ApiTimes ==
    {Timestamp(2024, 12, 31, 23, 0), Timestamp(2025, 1, 1, 0, 0), Timestamp(2025, 1, 1, 0, 30),
     Timestamp(2025, 1, 1, 1, 0), Timestamp(2025, 1, 1, 2, 0)}

\* The answers with n rows for chunk c: any n of the timestamps in any
\* order, repeats included, the j-th row's observation being 10*c + j (so
\* that every row of the input can be told from every other); and, with no
\* rows, the two failures.
ApiResponses(c, n) ==
    {[status |-> 200, keys |-> {"hourly", "time", "temperature_2m"},
      rows |-> [j \in 1..n |-> [time |-> ts[j], temp_obs |-> Num(10 * c + j)]]] :
        ts \in [1..n -> ApiTimes]}
    \cup (IF n = 0
          THEN {[status |-> 500, keys |-> {}, rows |-> <<>>],
                [status |-> 200, keys |-> {"hourly", "time"}, rows |-> <<>>]}
          ELSE {})

Init ==
    /\ pc = "api_fetch"
    /\ err = ""
    /\ \E n1 \in 0..MaxRows : \E n2 \in 0..(MaxRows - n1) :
          \E r1 \in ApiResponses(1, n1), r2 \in ApiResponses(2, n2) :
             responses = <<r1, r2>>
    /\ dfs = <<>>
    /\ dropped = 0
    /\ bad = 0
    /\ raw_csv = NoFile
    /\ staging_csv = NoFile
    /\ cutoff = ToDatetime(END_DATE) + 23 * Hour1
    /\ df = <<>>
    /\ train_csv = NoFile
    /\ test_df = <<>>
    /\ clim_csv = NoFile
    /\ ChunksIdle
    /\ InferIdle

Next == FetchChunk \/ Normalize \/ BuildTrainFeatures

Spec == Init /\ [][Next]_vars

----------------------------------------------------------------------------
(* Claims about the pipeline (Spec)                                        *)

\* The concatenated input of the normaliser: the rows of every answer in
\* chunk order and, within a chunk, in the order the archive listed them,
\* those outside the chunk's range left out.
ConcatenatedInput ==
    Concat([c \in DOMAIN responses |->
               clip_to_exact_range(responses[c].rows, year_chunks[c][1], year_chunks[c][2])])

StrictlyIncreasing(tbl) == \A k \in 1..(Len(tbl) - 1) : tbl[k].time < tbl[k + 1].time

\* C8: whatever the order, overlap or duplication of the fetched rows, the
\* table the normaliser saves has strictly increasing timestamps.
C8_SavedTableStrictlyIncreasing ==
    /\ staging_csv.written => StrictlyIncreasing(staging_csv.rows)
    /\ raw_csv.written => StrictlyIncreasing(raw_csv.rows)

\* C8 witness: a table was saved from input that was out of order and held
\* a repeated timestamp.
C8_Witness ==
    /\ staging_csv.written
    /\ Len(staging_csv.rows) >= 2
    /\ ~IsMonotonicIncreasing(ConcatenatedInput)
    /\ dropped > 0

\* C9, as claimed: of the input rows that share a timestamp the saved table
\* keeps the one that comes first in the concatenated input, and the
\* reported count is the number of rows removed.
C9_KeepsFirstOfInput ==
    staging_csv.written =>
        /\ dropped = Len(ConcatenatedInput) - Len(staging_csv.rows)
        /\ \A s \in Range(staging_csv.rows) :
              \E k \in DOMAIN ConcatenatedInput :
                 /\ ConcatenatedInput[k] = s
                 /\ \A j \in 1..(k - 1) : ConcatenatedInput[j].time # s.time

\* C10, as claimed: a merged table with a step other than one hour is saved
\* with every timestamp kept and the steps counted, and the training build
\* that follows does not fail on it.
C10_CadenceAnomalyNeverFatal ==
    staging_csv.written /\ bad > 0 =>
        /\ bad = NonHourlySteps(staging_csv.rows)
        /\ {s.time : s \in Range(staging_csv.rows)} = {r.time : r \in Range(ConcatenatedInput)}
        /\ pc # "failed"

\* The rows of the merged table that are off the hour boundary.
OffHour(tbl) == {r \in Range(tbl) : Fields(r.time).minute # 0}

\* C11, as claimed: once every chunk is merged, a row off the hour boundary
\* makes the normaliser fail with the cadence error and save nothing, so
\* that no saved table holds a timestamp such as 00:30.
C11_OffHourTimestampRejected ==
    /\ staging_csv.written => OffHour(staging_csv.rows) = {}
    /\ raw_csv.written => OffHour(raw_csv.rows) = {}
    /\ (pc # "api_fetch" /\ Len(dfs) = Len(year_chunks) /\ OffHour(Concat(dfs)) # {}) =>
          /\ err = "AssertionError: There are non-hourly timestamps."
          /\ ~staging_csv.written

----------------------------------------------------------------------------
(* make_year_chunks on its own: the loop over the years of a range, then   *)
(* the clipping of every chunk's answer, as the fetch loop does it.        *)

\* How many calendar years after the first the ranges reach into.
MaxYears == 2

FirstYear == 2023

\* The days of a year the ranges start and end at: the days around the
\* year boundaries, a day in mid-year, and the last day of the configured
\* range.
ChunkDays == <<<<1, 1>>, <<1, 2>>, <<6, 15>>, <<9, 16>>, <<12, 30>>, <<12, 31>>>>

ChunkDates ==
    {<<y, ChunkDays[k][1], ChunkDays[k][2]>> : y \in FirstYear..(FirstYear + MaxYears),
                                                k \in DOMAIN ChunkDays}

\* What the archive holds: the first and the last hour of each of the
\* dates, in ascending order.
ArchiveRows ==
    [i \in 1..(2 * Len(ChunkDays) * (MaxYears + 1)) |->
        LET y == FirstYear + (i - 1) \div (2 * Len(ChunkDays))
            k == ((i - 1) % (2 * Len(ChunkDays))) \div 2 + 1
            h == IF i % 2 = 1 THEN 0 ELSE 23
        IN  [time |-> Timestamp(y, ChunkDays[k][1], ChunkDays[k][2], h, 0),
             temp_obs |-> Num(i)]]

InitChunks ==
    /\ pc = "mc_loop"
    /\ err = ""
    /\ responses = <<>>
    /\ dfs = <<>>
    /\ dropped = 0
    /\ bad = 0
    /\ raw_csv = NoFile
    /\ staging_csv = NoFile
    /\ cutoff = CUTOFF
    /\ df = <<>>
    /\ train_csv = NoFile
    /\ test_df = <<>>
    /\ clim_csv = NoFile
    /\ start_date \in ChunkDates
    /\ end_date \in ChunkDates
    /\ year = Fields(ToDatetime(start_date)).year
    /\ chunks = <<>>
    /\ parts = <<>>
    /\ InferIdle

\* One pass of the while loop of make_year_chunks.
YearChunkStep ==
    /\ pc = "mc_loop"
    /\ year <= Fields(ToDatetime(end_date)).year
    /\ chunks' = Append(chunks, YearChunk(year, ToDatetime(start_date), ToDatetime(end_date)))
    /\ year' = year + 1
    /\ UNCHANGED <<pc, err, responses, dfs, dropped, bad, raw_csv, staging_csv, cutoff, df,
                   train_csv, test_df, clim_csv, start_date, end_date, parts, inferVars>>

\* The loop condition fails: return chunks.
YearChunksReturn ==
    /\ pc = "mc_loop"
    /\ year > Fields(ToDatetime(end_date)).year
    /\ pc' = "mc_clip"
    /\ UNCHANGED <<err, responses, dfs, dropped, bad, raw_csv, staging_csv, cutoff, df,
                   train_csv, test_df, clim_csv, chunkVars, inferVars>>

\* The fetch loop over the chunks, the archive answering each request with
\* all it holds: every chunk's frame is clipped to the chunk.
ClipChunks ==
    /\ pc = "mc_clip"
    /\ parts' = [c \in DOMAIN chunks |->
                    clip_to_exact_range(ArchiveRows, chunks[c][1], chunks[c][2])]
    /\ pc' = "mc_done"
    /\ UNCHANGED <<err, responses, dfs, dropped, bad, raw_csv, staging_csv, cutoff, df,
                   train_csv, test_df, clim_csv, start_date, end_date, year, chunks,
                   inferVars>>

NextChunks == YearChunkStep \/ YearChunksReturn \/ ClipChunks

SpecChunks == InitChunks /\ [][NextChunks]_vars

\* The loop is the only thing running, so it is never starved of a step.
SpecChunksFair == SpecChunks /\ WF_vars(NextChunks)

----------------------------------------------------------------------------
(* Claims about make_year_chunks (SpecChunks, SpecChunksFair)              *)

\* Dates compared as dates, field by field.
DateLeq(a, b) ==
    \/ a[1] < b[1]
    \/ a[1] = b[1] /\ a[2] < b[2]
    \/ a[1] = b[1] /\ a[2] = b[2] /\ a[3] <= b[3]

DateMax(a, b) == IF DateLeq(a, b) THEN b ELSE a

DateMin(a, b) == IF DateLeq(a, b) THEN a ELSE b

\* The chunks claimed for start .. end: one per calendar year from start's
\* to end's, in ascending order, each clipped to the year and to the range.
ClaimedChunks(start, end) ==
    [i \in 1..(end[1] - start[1] + 1) |->
        <<DateMax(start, <<start[1] + i - 1, 1, 1>>),
          DateMin(end, <<start[1] + i - 1, 12, 31>>)>>]

\* C12: for every start_date <= end_date the loop of make_year_chunks ends,
\* and the list it returns is the claimed one: one pair per calendar year of
\* the range in ascending order, each max(start, Jan 1) .. min(end, Dec 31).
C12_OneChunkPerYear ==
    <>[](/\ pc = "mc_done"
         /\ DateLeq(start_date, end_date) => chunks = ClaimedChunks(start_date, end_date))

\* C12 witness: the range 2024-01-01 .. 2025-09-16 was chunked into
\* (2024-01-01, 2024-12-31) and (2025-01-01, 2025-09-16).
C12_Witness ==
    /\ pc = "mc_done"
    /\ start_date = <<2024, 1, 1>>
    /\ end_date = <<2025, 9, 16>>
    /\ chunks = << << <<2024, 1, 1>>, <<2024, 12, 31>> >>, << <<2025, 1, 1>>, <<2025, 9, 16>> >> >>

\* C13: for every start_date <= end_date the clipped chunks tile the range:
\* the first starts at start_date, the last ends at end_date, each next
\* sub_start is the day after the previous sub_end, and every hour the
\* archive holds is in exactly one chunk's frame when it lies in
\* start_date 00:00 .. end_date 23:00 and in none otherwise.
C13_ChunksTileTheRange ==
    (pc = "mc_done" /\ DateLeq(start_date, end_date)) =>
        /\ Len(chunks) >= 1
        /\ chunks[1][1] = start_date
        /\ chunks[Len(chunks)][2] = end_date
        /\ \A c \in 1..(Len(chunks) - 1) :
              ToDatetime(chunks[c + 1][1]) = ToDatetime(chunks[c][2]) + Day1
        /\ \A r \in Range(ArchiveRows) :
              Cardinality({c \in DOMAIN parts : r \in Range(parts[c])})
                 = IF /\ r.time >= ToDatetime(start_date)
                      /\ r.time <= ToDatetime(end_date) + 23 * Hour1
                   THEN 1 ELSE 0

\* C13 witness: a range of more than one year was chunked and clipped, and
\* the last hour of the first year is in the first chunk's frame.
C13_Witness ==
    /\ pc = "mc_done"
    /\ DateLeq(start_date, end_date)
    /\ Len(chunks) >= 2
    /\ \E r \in Range(parts[1]) : r.time = Timestamp(start_date[1], 12, 31, 23, 0)
    /\ \E r \in Range(parts[2]) : r.time = Timestamp(start_date[1] + 1, 1, 1, 0, 0)

----------------------------------------------------------------------------
(* Further claims about the training build (SpecTrain)                     *)

\* C14, as claimed: once build_train_features is over on a table that
\* check_hourly passed, either a training table with at least one row was
\* written, or the build failed with the empty-table error and wrote
\* nothing; so it fails both when no staging row is at or before the cutoff
\* and when every row that is lacks its lag or rolling history.
C14_NoUsableRowsIsAnError ==
    (/\ pc \in {"bf_infer", "failed"}
     /\ err \notin {"ValueError: Timestamps are not sorted ascending.",
                    "ValueError: Found non-hourly gaps in the time series."}) =>
        /\ ({r \in Range(staging_csv.rows) : r.time <= cutoff} = {}) =>
              /\ pc = "failed"
              /\ err = "ValueError: Training data is empty after applying the cutoff."
              /\ ~train_csv.written
        /\ train_csv.written => train_csv.rows # <<>>
        /\ ~train_csv.written =>
              /\ pc = "failed"
              /\ err = "ValueError: Training data is empty after applying the cutoff."

----------------------------------------------------------------------------
(* Further claims about the pipeline (Spec)                                *)

\* An answer that is a success and holds both hourly series.
WellFormed(resp) ==
    /\ resp.status = 200
    /\ {"hourly", "time", "temperature_2m"} \subseteq resp.keys

\* C15: the chunks are fetched in chunk order, one frame per chunk fetched;
\* no chunk at or after a failed one is ever fetched, the failure ending the
\* run with nothing written; and the raw and the standardized table are
\* written only when every chunk was fetched successfully and the merged
\* table passed the checks.
C15_FatalFailurePropagates ==
    /\ Len(dfs) <= Len(year_chunks)
    /\ \A c \in DOMAIN dfs :
          /\ WellFormed(responses[c])
          /\ dfs[c] \in {clip_to_exact_range(part, year_chunks[c][1], year_chunks[c][2]) :
                            part \in SortValues(responses[c].rows)}
    /\ \A c \in DOMAIN responses : ~WellFormed(responses[c]) => Len(dfs) < c
    /\ (Len(dfs) < Len(year_chunks) /\ ~WellFormed(responses[Len(dfs) + 1]) /\ pc # "api_fetch") =>
          /\ pc = "failed"
          /\ err \in {"RuntimeError: API request failed",
                      "RuntimeError: API response is missing fields"}
    /\ (raw_csv.written \/ staging_csv.written) =>
          /\ raw_csv = staging_csv
          /\ Len(dfs) = Len(year_chunks)
          /\ \A c \in DOMAIN responses : WellFormed(responses[c])
          /\ IsMonotonicIncreasing(staging_csv.rows)
    /\ pc = "failed" /\ Len(dfs) < Len(year_chunks) => ~raw_csv.written /\ ~staging_csv.written

\* C15 witness: the first chunk was fetched with rows in it, the second
\* answer was a failure, and the run ended there with nothing written.
C15_Witness ==
    /\ pc = "failed"
    /\ Len(dfs) = 1
    /\ dfs[1] # <<>>
    /\ ~WellFormed(responses[2])
    /\ ~raw_csv.written
    /\ ~staging_csv.written

----------------------------------------------------------------------------
(* build_infer_features on its own                                         *)

\* pd.date_range that leaves its end point out.
date_range_HalfOpen(start, end) ==
    [i \in 1..(IF end > start THEN (end - start) \div Hour1 ELSE 0) |-> start + (i - 1) * Hour1]

\* pd.date_range(start=start, end=end, freq="h"): start, start + 1h, ... up
\* to end inclusive; empty when end is before start.
date_range(start, end) ==
    [i \in 1..(IF end >= start THEN (end - start) \div Hour1 + 1 ELSE 0) |-> start + (i - 1) * Hour1]

\* The column names of the inference frame: time and what add_time_features
\* adds to it.
InferColumns == {"time"} \cup DOMAIN TimeFeaturesOf([time |-> 0])

\* Step 3 of build_infer_features over the frame's column names: "" or the
\* ValueError raised.
InferSafety(columns) ==
    IF \E forbidden \in {"temp_obs", "temperature_2m"} : forbidden \in columns
    THEN "ValueError: Inference features should not contain observed temperature columns."
    ELSE ""

\* build_infer_features(t0, t1, INFER_OUT).
BuildInferFeatures ==
    /\ pc = "bf_infer"
    /\ LET start == ToDatetime(t0)
           end   == ToDatetime(t1) + 23 * Hour1
           ts    == date_range(start, end)
           frame == add_time_features([k \in DOMAIN ts |-> [time |-> ts[k]]])
           e     == InferSafety(InferColumns)
       IN  IF e # ""
           THEN /\ pc' = "failed"
                /\ err' = e
                /\ UNCHANGED infer_csv
           ELSE /\ infer_csv' = ToCsv(frame)
                /\ pc' = "bf_done"
                /\ err' = ""
    /\ UNCHANGED <<responses, dfs, dropped, bad, raw_csv, staging_csv, cutoff, df,
                   train_csv, test_df, clim_csv, chunkVars, t0, t1>>

\* How many days a forecast horizon spans at most.
MaxInferDays == 4

\* The first days of the horizons: the configured T0, the days around a
\* year boundary and a leap day, and the days the clocks change on.
InferStarts ==
    {<<2025, 9, 17>>, <<2025, 9, 30>>, <<2024, 2, 28>>, <<2024, 2, 29>>, <<2024, 12, 30>>,
     <<2024, 12, 31>>, <<2025, 1, 1>>, <<2025, 2, 28>>, <<2025, 3, 8>>, <<2025, 3, 9>>,
     <<2025, 11, 1>>, <<2025, 11, 2>>}

InitInfer ==
    /\ pc = "bf_infer"
    /\ err = ""
    /\ responses = <<>>
    /\ dfs = <<>>
    /\ dropped = 0
    /\ bad = 0
    /\ raw_csv = NoFile
    /\ staging_csv = NoFile
    /\ cutoff = CUTOFF
    /\ df = <<>>
    /\ train_csv = NoFile
    /\ test_df = <<>>
    /\ clim_csv = NoFile
    /\ ChunksIdle
    /\ t0 \in InferStarts
    /\ \E n \in -1..MaxInferDays : t1 = Strftime(ToDatetime(t0) + (n - 1) * Day1)
    /\ infer_csv = NoFile

NextInfer == BuildInferFeatures

SpecInfer == InitInfer /\ [][NextInfer]_vars

\* C16: the frame build_infer_features writes has one row for each hour of
\* t0 00:00 .. t1 23:00 and no other, in ascending order, and exactly the
\* columns time, hour, day_of_week, is_weekend, sin_hour, cos_hour, sin_doy
\* and cos_doy, so no observed-value, lag, diff or rolling column; the build
\* always writes its frame; and its safety step raises on every set of
\* column names that holds temp_obs or temperature_2m.
C16_InferFrameIsCalendarOnly ==
    /\ pc # "bf_infer" => pc = "bf_done" /\ infer_csv.written
    /\ infer_csv.written =>
          /\ {r.time : r \in Range(infer_csv.rows)}
                = {t \in ToDatetime(t0)..(ToDatetime(t1) + 23 * Hour1) : t % Hour1 = 0}
          /\ \A k \in 1..(Len(infer_csv.rows) - 1) :
                infer_csv.rows[k].time < infer_csv.rows[k + 1].time
          /\ \A r \in Range(infer_csv.rows) :
                DOMAIN r = {"time", "hour", "day_of_week", "is_weekend",
                            "sin_hour", "cos_hour", "sin_doy", "cos_doy"}
          /\ \A columns \in SUBSET (InferColumns \cup {"temp_obs", "temperature_2m", "temp_lag_1"}) :
                (columns \cap {"temp_obs", "temperature_2m"} # {}) <=> InferSafety(columns) # ""

\* C16 witness: a frame for a horizon of more than one day was written.
C16_Witness ==
    /\ infer_csv.written
    /\ t0 # t1
    /\ Len(infer_csv.rows) >= 48
    /\ infer_csv.rows[1].time = ToDatetime(t0)
    /\ infer_csv.rows[Len(infer_csv.rows)].time = ToDatetime(t1) + 23 * Hour1

----------------------------------------------------------------------------
(* Further claims about the evaluation build (SpecClim)                    *)

\* C17, as claimed: in every row of the evaluation table and for every lag,
\* the value get_lag_value returned is the missing marker exactly when its
\* tag is "missing", so a value tagged "real" or "climatology" is a number.
C17_MissingValueIffMissingTag ==
    \A r \in LaggedRows : \A i \in DOMAIN lag_configs :
        IsNaN(r[LagCol(lag_configs[i])]) <=> r[SourceCol(lag_configs[i])] = "missing"

====
